---- MODULE Spec2Model ----
(***************************************************************************)
(* The string-counting hash table of uniqstr.c: an open-addressed table    *)
(* with linear probing that grows by doubling.                             *)
(*                                                                         *)
(* A C string is the sequence of its characters with the terminating NUL   *)
(* (0) included, so "aa" is <<97, 97, 0>> and the empty string is <<0>>.   *)
(* A null pointer is the empty sequence.                                   *)
(*                                                                         *)
(* The heap is recorded as bags of malloc/calloc/strdup results and of     *)
(* free calls.  The block behind a string copy is named by the string it   *)
(* holds, the block behind a backing store by its number of slots (the     *)
(* sizes of one table's stores are pairwise different, since every growth  *)
(* doubles), and there is one table header.                                *)
(***************************************************************************)
EXTENDS Integers, Sequences, FiniteSets, Bags, TLC

\* ---------------------------------------------------------------- constants
HASH_SIZE == 11
HASH_MAGIC == 37
HASH_GROWTH_FACTOR == 2
\* HASH_LOAD_FACTOR 0.75 as the fraction HASH_LOAD_NUM / HASH_LOAD_DEN
HASH_LOAD_NUM == 3
HASH_LOAD_DEN == 4
MAX_STRING_SIZE == 64
MIN_STRING_SIZE == 1
ASCII_SIZE == 128

\* ------------------------------------------------------------------- bounds
\* addString calls made on one table
MaxCalls == 9
\* distinct strings the caller draws from
NumWords == 9
\* calls made with one and the same string
MaxCount == 2
\* characters of a string (before the NUL)
WordLen == 3
\* initial capacities 1..MaxSmallSize are tried, and HASH_SIZE
MaxSmallSize == 3
\* allocations that fail in one run
MaxOom == 1
\* freeHashTable calls made with the pointer of one table
MaxFree == 2
\* strdup fails in one of the first MaxOomCall calls of addString
MaxOomCall == 3
\* calls of addString made with a string checkString refuses
MaxInvalid == 1
\* such a call is one of the first MaxInvalidCall calls of addString
MaxInvalidCall == 1

NULL == << >>

\* The k-th string of the caller: the k-th lower-case letter, WordLen times.
Word(k) == [i \in 1..(WordLen + 1) |-> IF i <= WordLen THEN 96 + k ELSE 0]

Words == {Word(k) : k \in 1..NumWords}

InitSizes == (1..MaxSmallSize) \cup {HASH_SIZE}

VARIABLES
    ht,        \* the HashTable: [dict, size, count]
    heap,      \* allocations made and released
    status,    \* "live", "freed" (after freeHashTable), or an outcome of
               \* undefined behaviour: "crashed" or "undefined"
    inserted,  \* bag of the strings addString was called with
    initSize,  \* the capacity createHashTable was called with
    errors,    \* messages handleError has printed, in order
    freeCalls, \* the freeHashTable calls made, in order: the argument ("ht" or
               \* "NULL"), whether the call returned, and what it returned
    oom,       \* number of allocations that have failed
    driver,    \* main: the statement it is at, its loop index, and the object
               \* its last statement read or wrote ("none", "ht", "lookup")
    lookup,    \* the look-up table of illegal characters and the call made it
    hashRun    \* one call of hash on its own: its arguments and its result

vars == <<ht, heap, status, inserted, initSize, errors, freeCalls, oom,
          driver, lookup, hashRun>>

\* the parts of the state the table operations do not touch
others == <<driver, lookup, hashRun>>

NoDriver == [pc |-> "none", i |-> 0, access |-> "none"]
NoLookup == [status |-> "none"]
NoHashRun == [done |-> FALSE]

\* main is not running, and no look-up table and no separate hash call exist
OthersIdle == driver = NoDriver /\ lookup = NoLookup /\ hashRun = NoHashRun

\* --------------------------------------------------------------------- heap
EmptyHeap ==
    [htA |-> 0, htF |-> 0,
     dictA |-> EmptyBag, dictF |-> EmptyBag,
     strA |-> EmptyBag, strF |-> EmptyBag]

MallocHt(hp) == [hp EXCEPT !.htA = @ + 1]
CallocDict(hp, size) == [hp EXCEPT !.dictA = @ (+) SetToBag({size})]
Strdup(hp, str) == [hp EXCEPT !.strA = @ (+) SetToBag({str})]
FreeHt(hp) == [hp EXCEPT !.htF = @ + 1]
FreeDict(hp, size) == [hp EXCEPT !.dictF = @ (+) SetToBag({size})]
\* free(NULL) does nothing
FreeStr(hp, str) ==
    IF str = NULL THEN hp ELSE [hp EXCEPT !.strF = @ (+) SetToBag({str})]

\* --------------------------------------------------------------------- hash
\* C's % truncates towards zero
CRem(a, b) == IF a >= 0 THEN a % b ELSE -((-a) % b)

RECURSIVE HashLoop(_, _, _, _)
HashLoop(str, i, h, size) ==
    IF str[i] = 0 THEN h
    ELSE LET step == CRem(h * HASH_MAGIC + str[i], size)
         IN  CASE step \in Int -> HashLoop(str, i + 1, step, size)

hash(str, size) == HashLoop(str, 1, 0, size)

\* -------------------------------------------------------------------- table
\* a calloc'ed Word
ZeroWord == [str |-> NULL, count |-> 0]

createHashTable(size) ==
    [dict |-> [i \in 0..(size - 1) |-> ZeroWord], size |-> size, count |-> 0]

\* mutant: the load factor of the table as it is, without the pending entry
recalcLoadFactor_NoPending(t) == [num |-> t.count, den |-> t.size]

\* (float)(count + 1) / size, kept as the exact fraction
recalcLoadFactor(t) == [num |-> t.count + 1, den |-> t.size]

\* mutant: >= in place of >
AboveLoadFactor_Geq(lf) == lf.num * HASH_LOAD_DEN >= HASH_LOAD_NUM * lf.den

\* lf > HASH_LOAD_FACTOR
AboveLoadFactor(lf) == lf.num * HASH_LOAD_DEN > HASH_LOAD_NUM * lf.den

\* the while loop of growHashTable: the first empty slot from index on
RECURSIVE GrowProbe(_, _, _)
GrowProbe(new_dict, index, new_size) ==
    IF new_dict[index].str # NULL
    THEN GrowProbe(new_dict, (index + 1) % new_size, new_size)
    ELSE index

\* mutant: the entries are rehashed against the old capacity
RECURSIVE GrowLoop_OldSize(_, _, _, _)
GrowLoop_OldSize(t, new_dict, new_size, i) ==
    IF i >= t.size THEN new_dict
    ELSE IF t.dict[i].str # NULL
    THEN LET index == GrowProbe(new_dict, hash(t.dict[i].str, t.size), new_size)
         IN  GrowLoop_OldSize(t, [new_dict EXCEPT ![index] =
                              [str |-> t.dict[i].str, count |-> t.dict[i].count]],
                      new_size, i + 1)
    ELSE GrowLoop_OldSize(t, new_dict, new_size, i + 1)

\* mutant: the count of a moved entry is not copied
RECURSIVE GrowLoop_DropCount(_, _, _, _)
GrowLoop_DropCount(t, new_dict, new_size, i) ==
    IF i >= t.size THEN new_dict
    ELSE IF t.dict[i].str # NULL
    THEN LET index == GrowProbe(new_dict, hash(t.dict[i].str, new_size), new_size)
         IN  GrowLoop_DropCount(t, [new_dict EXCEPT ![index].str = t.dict[i].str],
                                new_size, i + 1)
    ELSE GrowLoop_DropCount(t, new_dict, new_size, i + 1)

\* the for loop of growHashTable, from slot i on
RECURSIVE GrowLoop(_, _, _, _)
GrowLoop(t, new_dict, new_size, i) ==
    IF i >= t.size THEN new_dict
    ELSE IF t.dict[i].str # NULL
    THEN LET index == GrowProbe(new_dict, hash(t.dict[i].str, new_size), new_size)
         IN  GrowLoop(t, [new_dict EXCEPT ![index] =
                              [str |-> t.dict[i].str, count |-> t.dict[i].count]],
                      new_size, i + 1)
    ELSE GrowLoop(t, new_dict, new_size, i + 1)

\* mutant: the capacity is not multiplied
NewSize_Unchanged(t) == t.size

\* int new_size = ht->size * HASH_GROWTH_FACTOR
NewSize(t) == t.size * HASH_GROWTH_FACTOR

\* growHashTable with calloc succeeding: the table and the heap afterwards
growHashTable(t, hp) ==
    LET new_size == NewSize(t)
        zeroed == [i \in 0..(new_size - 1) |-> ZeroWord]
    IN  [ht |-> [dict |-> GrowLoop(t, zeroed, new_size, 0),
                 size |-> new_size,
                 count |-> t.count],
         heap |-> FreeDict(CallocDict(hp, new_size), t.size)]

TableFullMsg == "Error: Could not add string to hash table."

\* mutant: the strings are compared as pointers, which are never equal
RECURSIVE AddProbe_PtrCompare(_, _, _, _, _)
AddProbe_PtrCompare(t, hp, str, index, start_index) ==
    IF t.dict[index].str = NULL
    THEN [ht |-> [t EXCEPT !.dict[index] = [str |-> str, count |-> 1],
                           !.count = @ + 1],
          heap |-> Strdup(hp, str),
          err |-> << >>]
    ELSE LET next == (index + 1) % t.size
         IN  IF next # start_index
             THEN AddProbe_PtrCompare(t, hp, str, next, start_index)
             ELSE [ht |-> t, heap |-> hp, err |-> <<TableFullMsg>>]

\* mutant: the update path counts the string as a new entry too
RECURSIVE AddProbe_UpdateCounted(_, _, _, _, _)
AddProbe_UpdateCounted(t, hp, str, index, start_index) ==
    IF t.dict[index].str = NULL
    THEN [ht |-> [t EXCEPT !.dict[index] = [str |-> str, count |-> 1],
                           !.count = @ + 1],
          heap |-> Strdup(hp, str),
          err |-> << >>]
    ELSE IF t.dict[index].str = str
    THEN [ht |-> [t EXCEPT !.dict[index].count = @ + 1, !.count = @ + 1],
          heap |-> hp,
          err |-> << >>]
    ELSE LET next == (index + 1) % t.size
         IN  IF next # start_index
             THEN AddProbe_UpdateCounted(t, hp, str, next, start_index)
             ELSE [ht |-> t, heap |-> hp, err |-> <<TableFullMsg>>]

\* the do-while loop of addString, at slot index
RECURSIVE AddProbe(_, _, _, _, _)
AddProbe(t, hp, str, index, start_index) ==
    IF t.dict[index].str = NULL
    THEN [ht |-> [t EXCEPT !.dict[index] = [str |-> str, count |-> 1],
                           !.count = @ + 1],
          heap |-> Strdup(hp, str),
          err |-> << >>]
    ELSE IF t.dict[index].str = str
    THEN [ht |-> [t EXCEPT !.dict[index].count = @ + 1],
          heap |-> hp,
          err |-> << >>]
    ELSE LET next == (index + 1) % t.size
         IN  IF next # start_index
             THEN AddProbe(t, hp, str, next, start_index)
             ELSE [ht |-> t, heap |-> hp, err |-> <<TableFullMsg>>]

\* mutant: the table never grows
GrowIfNeeded_Never(t, hp) == [ht |-> t, heap |-> hp]

\* the first statement of addString: grow if the load factor is too high
GrowIfNeeded(t, hp) ==
    IF AboveLoadFactor(recalcLoadFactor(t))
    THEN growHashTable(t, hp)
    ELSE [ht |-> t, heap |-> hp]

\* addString with every allocation succeeding
addString(t, hp, str) ==
    LET g == GrowIfNeeded(t, hp)
        index == hash(str, g.ht.size)
    IN  AddProbe(g.ht, g.heap, str, index, index)

\* the for loop of freeHashTable, from slot i on
RECURSIVE FreeLoop(_, _, _)
FreeLoop(t, hp, i) ==
    IF i >= t.size THEN hp ELSE FreeLoop(t, FreeStr(hp, t.dict[i].str), i + 1)

\* mutant: the strings are not released
freeHashTable_KeepStrings(t, hp) == FreeHt(FreeDict(hp, t.size))

\* freeHashTable on a non-null table: the heap afterwards
freeHashTable(t, hp) == FreeHt(FreeDict(FreeLoop(t, hp, 0), t.size))

\* ------------------------------------------------------------------ actions
Init ==
    \E size \in InitSizes :
        /\ ht = createHashTable(size)
        /\ heap = CallocDict(MallocHt(EmptyHeap), size)
        /\ status = "live"
        /\ inserted = EmptyBag
        /\ initSize = size
        /\ errors = << >>
        /\ freeCalls = << >>
        /\ oom = 0
        /\ OthersIdle

\* the number of addString calls made
Calls == BagCardinality(inserted)

\* addString(ht, str)
AddString ==
    /\ status = "live"
    /\ Calls < MaxCalls
    /\ \E str \in Words :
        /\ CopiesIn(str, inserted) < MaxCount
        /\ LET r == addString(ht, heap, str)
           IN  /\ ht' = r.ht
               /\ heap' = r.heap
               /\ errors' = errors \o r.err
        /\ inserted' = inserted (+) SetToBag({str})
    /\ UNCHANGED <<status, initSize, freeCalls, oom, others>>

\* freeHashTable(ht) on the live table
FreeHashTable ==
    /\ status = "live"
    /\ Len(freeCalls) < MaxFree
    /\ heap' = freeHashTable(ht, heap)
    /\ status' = "freed"
    /\ freeCalls' = Append(freeCalls, [arg |-> "ht", returned |-> TRUE, ret |-> 0])
    /\ UNCHANGED <<ht, inserted, initSize, errors, oom, others>>

Next == AddString \/ FreeHashTable

\* every allocation succeeds and the table is destroyed at most once
Spec == Init /\ [][Next]_vars

\* What a dereference of a null or dangling pointer can do: the process is
\* killed, or it goes on in a state the language does not define.  Neither
\* is followed by a further step.
UBOutcomes == {"crashed", "undefined"}

\* growHashTable with calloc returning NULL, up to its first dereference of
\* new_dict.  With an occupied slot that is inside the for loop (ub); with
\* none the loop body never runs and the function returns 0 with dict = NULL,
\* the old store released and the size doubled.
growHashTable_NoMemory(t, hp) ==
    IF \E i \in 0..(t.size - 1) : t.dict[i].str # NULL
    THEN [ht |-> t, heap |-> hp, ub |-> TRUE]
    ELSE [ht |-> [dict |-> NULL,
                  size |-> t.size * HASH_GROWTH_FACTOR,
                  count |-> t.count],
          heap |-> FreeDict(hp, t.size),
          ub |-> FALSE]

\* addString(ht, str) when the calloc of growHashTable fails: new_dict is not
\* checked, and either growHashTable writes through it or addString reads
\* ht->dict[index] with dict = NULL right after.
AddStringCallocFails ==
    /\ status = "live"
    /\ oom < MaxOom
    /\ Calls < MaxCalls
    /\ AboveLoadFactor(recalcLoadFactor(ht))
    /\ \E str \in Words :
        /\ CopiesIn(str, inserted) < MaxCount
        /\ inserted' = inserted (+) SetToBag({str})
    /\ LET g == growHashTable_NoMemory(ht, heap)
       IN  /\ ht' = g.ht
           /\ heap' = g.heap
    /\ status' \in UBOutcomes
    /\ oom' = oom + 1
    /\ UNCHANGED <<initSize, errors, freeCalls, others>>

NextAlloc == Next \/ AddStringCallocFails

\* the calloc of growHashTable may fail
SpecAlloc == Init /\ [][NextAlloc]_vars

NullTableMsg == "Error: Null hash table."

\* freeHashTable(NULL)
FreeHashTableNull ==
    /\ status \in {"live", "freed"}
    /\ Len(freeCalls) < MaxFree
    /\ errors' = Append(errors, NullTableMsg)
    /\ freeCalls' = Append(freeCalls, [arg |-> "NULL", returned |-> TRUE, ret |-> -1])
    /\ UNCHANGED <<ht, heap, status, inserted, initSize, oom, others>>

\* freeHashTable(ht) with the pointer of the table already destroyed.  The
\* pointer is dangling, not null, so the test `if (ht)` passes; the loop
\* reads ht->size and ht->dict from released memory and every free is a
\* second free.  Either the process is killed, or the reads see the old
\* contents and the call runs through and returns 0.
FreeHashTableAgain ==
    /\ status = "freed"
    /\ Len(freeCalls) < MaxFree
    /\ \/ /\ status' = "crashed"
          /\ freeCalls' = Append(freeCalls, [arg |-> "ht", returned |-> FALSE, ret |-> 0])
          /\ UNCHANGED heap
       \/ /\ heap' = freeHashTable(ht, heap)
          /\ freeCalls' = Append(freeCalls, [arg |-> "ht", returned |-> TRUE, ret |-> 0])
          /\ UNCHANGED status
    /\ UNCHANGED <<ht, inserted, initSize, errors, oom, others>>

NextDestroy == Next \/ FreeHashTableNull \/ FreeHashTableAgain

\* freeHashTable may be called again, and with a null pointer
SpecDestroy == Init /\ [][NextDestroy]_vars

\* ------------------------------------------------------------- observations
Slots(t) == 0..(t.size - 1)

Occupied(t) == {i \in Slots(t) : t.dict[i].str # NULL}

Strings(t) == {t.dict[i].str : i \in Occupied(t)}

\* the bag of (string, count) pairs held in occupied slots
Entries(t) ==
    [e \in {<<t.dict[i].str, t.dict[i].count>> : i \in Occupied(t)} |->
        Cardinality({i \in Occupied(t) : <<t.dict[i].str, t.dict[i].count>> = e})]

\* the slot holding str (one of them, if several do)
SlotOf(t, str) == CHOOSE i \in Occupied(t) : t.dict[i].str = str

\* the call being made in this step, if it is addString(ht, str)
IsAddString(str) == status = "live" /\ inserted' = inserted (+) SetToBag({str})

\* ------------------------------------------------------------------ C1
\* C1: after any sequence of addString calls on a fresh table no two occupied
\* slots hold equal strings, the strings held are exactly the strings
\* inserted, and each slot's count is the number of calls made with its
\* string.
C1_Uniqueness ==
    status = "live" =>
        /\ \A i, j \in Occupied(ht) : i # j => ht.dict[i].str # ht.dict[j].str
        /\ Strings(ht) = BagToSet(inserted)
        /\ \A i \in Occupied(ht) :
               ht.dict[i].count = CopiesIn(ht.dict[i].str, inserted)

\* a grown table holding several strings, one of them inserted MaxCount times
C1_Witness ==
    /\ status = "live"
    /\ ht.size > initSize
    /\ Cardinality(Occupied(ht)) >= 3
    /\ \E i \in Occupied(ht) : ht.dict[i].count = MaxCount /\ MaxCount >= 2

\* ------------------------------------------------------------------ C2
\* C2: after each addString call live_count / capacity <= 0.75, so the live
\* count is at most the capacity; and one doubling is enough for the pending
\* insertion: when the next call has to grow, (live_count + 1) / capacity
\* <= 0.75 after the growth.
C2_LoadFactorBound ==
    status = "live" =>
        /\ ht.count * HASH_LOAD_DEN <= HASH_LOAD_NUM * ht.size
        /\ ht.count <= ht.size
        /\ AboveLoadFactor(recalcLoadFactor(ht)) =>
               LET g == growHashTable(ht, heap).ht
               IN  (g.count + 1) * HASH_LOAD_DEN <= HASH_LOAD_NUM * g.size

\* a grown table loaded to exactly 0.75, which the next call has to grow
C2_Witness ==
    /\ status = "live"
    /\ ht.size > initSize
    /\ ht.count * HASH_LOAD_DEN = HASH_LOAD_NUM * ht.size
    /\ AboveLoadFactor(recalcLoadFactor(ht))

\* ------------------------------------------------------------------ C3
\* C3: growHashTable applied to any reachable table keeps the bag of
\* (string, count) pairs and the live count, and exactly doubles the
\* capacity.
C3_GrowthPreservesContents ==
    status = "live" =>
        LET g == growHashTable(ht, heap).ht
        IN  /\ Entries(g) = Entries(ht)
            /\ g.count = ht.count
            /\ g.size = 2 * ht.size
            /\ DOMAIN g.dict = Slots(g)

\* a table the next call grows: several entries, one with a count above 1,
\* and the growth moves an entry to another slot
C3_Witness ==
    /\ status = "live"
    /\ AboveLoadFactor(recalcLoadFactor(ht))
    /\ Cardinality(Occupied(ht)) >= 3
    /\ \E i \in Occupied(ht) : ht.dict[i].count >= 2
    /\ \E i \in Occupied(ht) :
           SlotOf(growHashTable(ht, heap).ht, ht.dict[i].str) # i

\* ------------------------------------------------------------------ C4
\* The count query of the specification: the probe sequence of addString,
\* stopping at an empty slot (a miss, 0) or at an equal string (its count).
RECURSIVE QueryProbe(_, _, _, _)
QueryProbe(t, str, index, start_index) ==
    IF t.dict[index].str = NULL THEN 0
    ELSE IF t.dict[index].str = str THEN t.dict[index].count
    ELSE LET next == (index + 1) % t.size
         IN  IF next # start_index THEN QueryProbe(t, str, next, start_index) ELSE 0

countForString(t, str) ==
    LET index == hash(str, t.size) IN QueryProbe(t, str, index, index)

\* C4: in every reachable table the count query returns, for every string,
\* the number of addString calls made with it: its count if it was inserted,
\* a miss if it never was.
C4_QueryRoundTrip ==
    status = "live" =>
        \A str \in Words : countForString(ht, str) = CopiesIn(str, inserted)

\* a grown table where a hit is found past its hash slot and a miss has to
\* probe past an occupied slot
C4_Witness ==
    /\ status = "live"
    /\ ht.size > initSize
    /\ \E str \in Strings(ht) : SlotOf(ht, str) # hash(str, ht.size)
    /\ \E str \in Words \ Strings(ht) : hash(str, ht.size) \in Occupied(ht)

\* ------------------------------------------------------------------ C5
\* C5: an addString call on a table with live count n and capacity C doubles
\* the capacity exactly when (n + 1) / C > 0.75 and otherwise leaves it
\* unchanged; from capacity HASH_SIZE = 11, with distinct strings only, the
\* capacity is 11 after each of the first 8 calls and 22 after the 9th, with
\* live count 9.
C5_GrowthRule ==
    /\ [][\A str \in Words : IsAddString(str) =>
             ht'.size = IF (ht.count + 1) * 4 > 3 * ht.size
                        THEN 2 * ht.size ELSE ht.size]_vars
    /\ [](status = "live" /\ initSize = 11 /\ Calls = Cardinality(BagToSet(inserted))
           => /\ Calls <= 8 => ht.size = 11 /\ ht.count = Calls
              /\ Calls = 9 => ht.size = 22 /\ ht.count = 9)

\* the 9th distinct string has been placed in the table created with 11 slots
C5_Witness ==
    /\ status = "live"
    /\ initSize = 11
    /\ Calls = 9
    /\ Cardinality(BagToSet(inserted)) = 9
    /\ ht.size = 22

\* the count held for str
CountOf(t, str) == t.dict[SlotOf(t, str)].count

\* ------------------------------------------------------------------ C6
\* C6 as stated: a call with a string already in the table performs no
\* growth; it adds 1 to that entry's count and leaves the capacity, the live
\* count, every slot position and every other count unchanged.
C6_UpdateNeverGrows ==
    [][\A str \in Words : IsAddString(str) /\ str \in Strings(ht) =>
          /\ ht'.size = ht.size
          /\ ht'.count = ht.count
          /\ ht'.dict = [ht.dict EXCEPT ![SlotOf(ht, str)].count = @ + 1]]_vars

\* C6 amended: a call with a string already in the table adds 1 to that
\* entry's count and leaves the live count, the set of strings and every
\* other count unchanged; the capacity doubles (and the entries are rehashed)
\* exactly when (n + 1) / C > 0.75, and otherwise the capacity and every slot
\* position are unchanged.
C6_UpdateFrame ==
    [][\A str \in Words : IsAddString(str) /\ str \in Strings(ht) =>
          LET grows == (ht.count + 1) * 4 > 3 * ht.size
          IN  /\ ht'.size = IF grows THEN 2 * ht.size ELSE ht.size
              /\ ht'.count = ht.count
              /\ Cardinality(Occupied(ht')) = Cardinality(Occupied(ht))
              /\ Strings(ht') = Strings(ht)
              /\ \A s \in Strings(ht) :
                     CountOf(ht', s) = CountOf(ht, s) + (IF s = str THEN 1 ELSE 0)
              /\ ~grows =>
                     ht'.dict = [ht.dict EXCEPT ![SlotOf(ht, str)].count = @ + 1]]_vars

\* an update has grown the table: its entries would have fitted, by the
\* growth rule for new entries, in half the capacity
C6_Witness ==
    /\ status = "live"
    /\ ht.size > initSize
    /\ ht.count * 4 <= 3 * (ht.size \div 2)
    /\ \E i \in Occupied(ht) : ht.dict[i].count >= 2

\* ------------------------------------------------------------------ C7
\* C7: the probe loop of addString never wraps back to its starting index:
\* the table-full message is never printed, because the table probed (after
\* the growth check) always has an empty slot.
C7_NeverFull ==
    /\ \A k \in 1..Len(errors) : errors[k] # TableFullMsg
    /\ status = "live" =>
           LET g == GrowIfNeeded(ht, heap).ht
           IN  \E i \in Slots(g) : g.dict[i].str = NULL

\* a table loaded to exactly 0.75 in which a probe has wrapped past the last
\* slot: an entry sits below its hash slot
C7_Witness ==
    /\ status = "live"
    /\ ht.count * 4 = 3 * ht.size
    /\ \E i \in Occupied(ht) : i < hash(ht.dict[i].str, ht.size)

\* ------------------------------------------------------------------ C8
\* C8 as stated: when the allocation of the new backing store fails during a
\* growth, the table is left as it was and stays usable, a failure is
\* signalled and the insertion is not performed.
C8_GrowthFailureIsClean ==
    [][oom' > oom =>
          /\ ht' = ht
          /\ heap' = heap
          /\ status' = "live"
          /\ Len(errors') > Len(errors)]_vars

\* ------------------------------------------------------------------ C9
\* nothing has been released more often than it was allocated
NoDoubleRelease(hp) ==
    /\ hp.htF <= hp.htA
    /\ hp.dictF \sqsubseteq hp.dictA
    /\ hp.strF \sqsubseteq hp.strA

\* C9 as stated: freeHashTable on a table already destroyed, or on a null
\* table, returns -1 and releases nothing; nothing is ever released twice.
C9_SecondDestroyRejected ==
    /\ \A k \in 1..Len(freeCalls) :
           (freeCalls[k].arg = "NULL" \/ \E j \in 1..(k - 1) : freeCalls[j].arg = "ht")
               => freeCalls[k].returned /\ freeCalls[k].ret = -1
    /\ NoDoubleRelease(heap)

\* ------------------------------------------------------------------ C10
\* the capacities of the backing stores the table has had
RECURSIVE StoreSizes(_, _)
StoreSizes(from, to) ==
    IF from >= to THEN {to} ELSE {from} \cup StoreSizes(2 * from, to)

\* C10: after create, any number of addString calls and one freeHashTable,
\* every allocation made for the table (each string copy, every backing
\* store including those replaced by growth, the header) has been released
\* exactly once; and while the table is live exactly the header, the current
\* store and the strings held are allocated.
C10_AllReleasedOnce ==
    /\ NoDoubleRelease(heap)
    /\ heap.htA = 1
    /\ \A n \in BagToSet(heap.dictA) : CopiesIn(n, heap.dictA) = 1
    /\ \A str \in BagToSet(heap.strA) : CopiesIn(str, heap.strA) = 1
    /\ BagToSet(heap.dictA) = StoreSizes(initSize, ht.size)
    /\ BagToSet(heap.strA) = BagToSet(inserted)
    /\ status = "freed" =>
           /\ heap.htF = 1
           /\ heap.dictF = heap.dictA
           /\ heap.strF = heap.strA
    /\ status = "live" =>
           /\ heap.htF = 0
           /\ BagToSet(heap.dictA (-) heap.dictF) = {ht.size}
           /\ BagToSet(heap.strA (-) heap.strF) = Strings(ht)

\* a table destroyed after two growths, holding several strings
C10_Witness ==
    /\ status = "freed"
    /\ ht.size >= 4 * initSize
    /\ Cardinality(Occupied(ht)) >= 3
    /\ Len(freeCalls) = 1

\* ------------------------------------------------------------------ C15
\* the do-while loop of addString, counting the slots it inspects
RECURSIVE AddProbeCount(_, _, _, _, _)
AddProbeCount(t, str, index, start_index, n) ==
    IF t.dict[index].str = NULL \/ t.dict[index].str = str THEN n + 1
    ELSE LET next == (index + 1) % t.size
         IN  IF next # start_index
             THEN AddProbeCount(t, str, next, start_index, n + 1)
             ELSE n + 1

\* the while loop of growHashTable, counting the slots it inspects; it gives
\* up past new_size, when it has seen every slot and none is empty
RECURSIVE GrowProbeCount(_, _, _, _)
GrowProbeCount(new_dict, index, new_size, n) ==
    IF n > new_size THEN n
    ELSE IF new_dict[index].str # NULL
    THEN GrowProbeCount(new_dict, (index + 1) % new_size, new_size, n + 1)
    ELSE n + 1

\* the for loop of growHashTable, from slot i on: the largest number of slots
\* its while loop inspects for one entry (most so far)
RECURSIVE GrowLoopCount(_, _, _, _, _)
GrowLoopCount(t, new_dict, new_size, i, most) ==
    IF i >= t.size THEN most
    ELSE IF t.dict[i].str # NULL
    THEN LET start == hash(t.dict[i].str, new_size)
             n == GrowProbeCount(new_dict, start, new_size, 0)
             index == GrowProbe(new_dict, start, new_size)
         IN  IF n > new_size THEN n
             ELSE GrowLoopCount(t, [new_dict EXCEPT ![index] =
                                  [str |-> t.dict[i].str, count |-> t.dict[i].count]],
                                new_size, i + 1, IF n > most THEN n ELSE most)
    ELSE GrowLoopCount(t, new_dict, new_size, i + 1, most)

\* the slots growHashTable inspects at most for one entry of t
GrowthProbes(t) ==
    GrowLoopCount(t, [i \in 0..(NewSize(t) - 1) |-> ZeroWord], NewSize(t), 0, 0)

\* the slots addString inspects for str in the table it probes
InsertProbes(t, hp, str) ==
    LET g == GrowIfNeeded(t, hp).ht
    IN  AddProbeCount(g, str, hash(str, g.size), hash(str, g.size), 0)

\* C15: every addString call ends.  A growth of any reachable table has more
\* slots in the new store than entries to move, and its inner loop finds an
\* empty slot for each entry within new_size slots; the insertion loop
\* inspects at most capacity slots.
C15_Terminates ==
    status = "live" =>
        /\ Cardinality(Occupied(ht)) < NewSize(ht)
        /\ GrowthProbes(ht) <= NewSize(ht)
        /\ \A str \in Words :
               InsertProbes(ht, heap, str) <= GrowIfNeeded(ht, heap).ht.size

\* a table the next call grows, where the growth has to probe past an
\* occupied slot of the new store and the insertion inspects three slots
C15_Witness ==
    /\ status = "live"
    /\ AboveLoadFactor(recalcLoadFactor(ht))
    /\ GrowthProbes(ht) >= 2
    /\ \E str \in Words : InsertProbes(ht, heap, str) >= 3

\* ------------------------------------------------------------------ C18
\* the slots from index `from` to index `to`, stepping +1 mod capacity
ProbePath(t, from, to) ==
    {(from + k) % t.size : k \in 0..((to - from + t.size) % t.size)}

\* C18: for every occupied slot j holding string s, every slot on the cyclic
\* path from hash(s, capacity) to j is occupied.
C18_ProbeChain ==
    status = "live" =>
        \A j \in Occupied(ht) :
            ProbePath(ht, hash(ht.dict[j].str, ht.size), j) \subseteq Occupied(ht)

\* a grown table with an entry three slots or more from its hash slot, and
\* one whose path wraps past the last slot
C18_Witness ==
    /\ status = "live"
    /\ ht.size > initSize
    /\ \E j \in Occupied(ht) :
           Cardinality(ProbePath(ht, hash(ht.dict[j].str, ht.size), j)) >= 3
    /\ \E j \in Occupied(ht) : j < hash(ht.dict[j].str, ht.size)

\* ------------------------------------------------------------------ C17
\* the do-while loop of addString with strdup returning NULL when it is
\* called: the result is stored unchecked, the slot's count is set to 1 and
\* the live count is incremented.  called tells whether strdup was called.
RECURSIVE AddProbeStrdupNull(_, _, _, _, _)
AddProbeStrdupNull(t, hp, str, index, start_index) ==
    IF t.dict[index].str = NULL
    THEN [ht |-> [t EXCEPT !.dict[index] = [str |-> NULL, count |-> 1],
                           !.count = @ + 1],
          heap |-> hp,
          err |-> << >>,
          called |-> TRUE]
    ELSE IF t.dict[index].str = str
    THEN [ht |-> [t EXCEPT !.dict[index].count = @ + 1],
          heap |-> hp,
          err |-> << >>,
          called |-> FALSE]
    ELSE LET next == (index + 1) % t.size
         IN  IF next # start_index
             THEN AddProbeStrdupNull(t, hp, str, next, start_index)
             ELSE [ht |-> t, heap |-> hp, err |-> <<TableFullMsg>>,
                   called |-> FALSE]

\* addString(ht, str) for a string not in the table, when strdup fails
AddStringStrdupFails ==
    /\ status = "live"
    /\ oom < MaxOom
    /\ Calls < MaxOomCall
    /\ \E str \in Words :
        /\ CopiesIn(str, inserted) < MaxCount
        /\ LET g == GrowIfNeeded(ht, heap)
               index == hash(str, g.ht.size)
               r == AddProbeStrdupNull(g.ht, g.heap, str, index, index)
           IN  /\ r.called
               /\ ht' = r.ht
               /\ heap' = r.heap
               /\ errors' = errors \o r.err
        /\ inserted' = inserted (+) SetToBag({str})
    /\ oom' = oom + 1
    /\ UNCHANGED <<status, initSize, freeCalls, others>>

NextStrdup == Next \/ AddStringStrdupFails

\* the strdup of addString may fail
SpecStrdup == Init /\ [][NextStrdup]_vars

\* C17: the live count equals the number of non-null slots in every reachable
\* state, also when strdup fails.
C17_CountIsOccupied ==
    status = "live" => ht.count = Cardinality(Occupied(ht))

\* ------------------------------------------------------------------ C11
\* no table: the state of the table variables where none has been made
NoTable == [dict |-> << >>, size |-> 0, count |-> 0]

TableIdle ==
    /\ ht = NoTable
    /\ heap = EmptyHeap
    /\ status = "none"
    /\ inserted = EmptyBag
    /\ initSize = 0
    /\ errors = << >>
    /\ freeCalls = << >>
    /\ oom = 0

table == <<ht, heap, status, inserted, initSize, errors, freeCalls, oom>>

\* the largest and the smallest int (32 bits)
INT_MAX == 2147483647
INT_MIN == -INT_MAX - 1

\* bytes a string is made of: a letter, and two bytes above 127
HashBytes == {97, 233, 255}
\* characters of a string given to hash on its own (before the NUL)
MaxHashLen == 6
\* the capacities hash is called with
HashSizes == {1, 2, HASH_SIZE, INT_MAX}

\* the strings of up to MaxHashLen bytes, NUL-terminated
HashStrings ==
    UNION {{Append(s, 0) : s \in [1..n -> HashBytes]} : n \in 0..MaxHashLen}

\* str[i] as the int it is promoted to: char is signed or unsigned as the
\* build has it
CharValue(byte, signedChar) ==
    IF signedChar /\ byte >= 128 THEN byte - 256 ELSE byte

CharValues(str, signedChar) ==
    [i \in 1..Len(str) |-> CharValue(str[i], signedChar)]

\* hash * HASH_MAGIC + c in int, by 16-bit halves: whether the exact value is
\* outside int, and the value in two's complement if it wraps
MulAdd(h, c) ==
    LET lo == h % 65536
        hi == h \div 65536
        low == lo * HASH_MAGIC + c
        high == hi * HASH_MAGIC + (low \div 65536)
        wrapped == high % 65536
    IN  [overflow |-> high < -32768 \/ high > 32767,
         value |-> (IF wrapped >= 32768 THEN wrapped - 65536 ELSE wrapped) * 65536
                   + (low % 65536)]

\* the for loop of hash on char values, with int arithmetic: the result and
\* whether hash * HASH_MAGIC + str[i] has overflowed (the value wraps)
RECURSIVE HashLoopInt(_, _, _, _, _)
HashLoopInt(str, i, h, size, ovf) ==
    IF str[i] = 0 THEN [value |-> h, overflow |-> ovf]
    ELSE LET m == MulAdd(h, str[i])
             step == CRem(m.value, size)
         IN  CASE step \in Int ->
                 HashLoopInt(str, i + 1, step, size, ovf \/ m.overflow)

\* hash(str, size) is called once, on its own
InitHash ==
    /\ TableIdle
    /\ driver = NoDriver
    /\ lookup = NoLookup
    /\ \E str \in HashStrings, size \in HashSizes, signedChar \in BOOLEAN :
           hashRun = [done |-> FALSE, str |-> str, size |-> size,
                      signedChar |-> signedChar]

\* the call returns, or a signed overflow makes its behaviour undefined:
\* the value wraps and the call returns, or it does not return
HashCall ==
    /\ hashRun.done = FALSE
    /\ LET chars == CharValues(hashRun.str, hashRun.signedChar)
           r == HashLoopInt(chars, 1, 0, hashRun.size, FALSE)
       IN  \E outcome \in {"returned"} \cup
                          (IF r.overflow THEN UBOutcomes ELSE {}) :
               hashRun' = [hashRun EXCEPT !.done = TRUE]
                          @@ [outcome |-> outcome,
                              overflow |-> r.overflow,
                              result |-> IF r.overflow THEN r.value
                                         ELSE hash(chars, hashRun.size)]
    /\ UNCHANGED <<table, driver, lookup>>

NextHash == HashCall

SpecHash == InitHash /\ [][NextHash]_vars

\* C11: for every string of 8-bit characters and every capacity >= 1 that is
\* an int, hash returns an index i with 0 <= i < capacity, and no
\* hash * 37 + character overflows.
C11_HashInRange ==
    hashRun.done =>
        /\ ~hashRun.overflow
        /\ hashRun.outcome = "returned"
        /\ 0 <= hashRun.result
        /\ hashRun.result < hashRun.size

\* without overflow the int loop is the loop of hash
HashLoopsAgree ==
    (hashRun.done /\ ~hashRun.overflow) =>
        hashRun.result = HashLoopInt(CharValues(hashRun.str, hashRun.signedChar),
                                     1, 0, hashRun.size, FALSE).value

\* ------------------------------------------------------------------ C12
\* strlen of a C string
strlen(str) == Len(str) - 1

\* checkString: -1 for a null pointer and for a length outside
\* MIN_STRING_SIZE..MAX_STRING_SIZE, else 0.  No function calls it.
checkString(str) ==
    IF str = NULL THEN -1
    ELSE IF strlen(str) < MIN_STRING_SIZE \/ strlen(str) > MAX_STRING_SIZE
    THEN -1
    ELSE 0

\* the empty string, and a string of MAX_STRING_SIZE + 1 letters
EmptyString == <<0>>
LongString == [i \in 1..(MAX_STRING_SIZE + 2) |->
                  IF i <= MAX_STRING_SIZE + 1 THEN 97 ELSE 0]

\* the strings checkString refuses
InvalidStrings == {NULL, EmptyString, LongString}

\* the calls made so far with a string checkString refuses
InvalidCalls ==
    CopiesIn(NULL, inserted) + CopiesIn(EmptyString, inserted)
        + CopiesIn(LongString, inserted)

\* addString(ht, str) with a string checkString refuses.  addString does not
\* call checkString: after the growth check, hash reads str[0], through the
\* null pointer if str is NULL; an empty or a long string is added as any
\* other.
AddStringInvalid ==
    /\ status = "live"
    /\ Calls < MaxInvalidCall
    /\ InvalidCalls < MaxInvalid
    /\ \E str \in InvalidStrings :
        /\ checkString(str) = -1
        /\ inserted' = inserted (+) SetToBag({str})
        /\ IF str = NULL
           THEN LET g == GrowIfNeeded(ht, heap)
                IN  /\ ht' = g.ht
                    /\ heap' = g.heap
                    /\ status' \in UBOutcomes
                    /\ UNCHANGED errors
           ELSE LET r == addString(ht, heap, str)
                IN  /\ ht' = r.ht
                    /\ heap' = r.heap
                    /\ errors' = errors \o r.err
                    /\ UNCHANGED status
    /\ UNCHANGED <<initSize, freeCalls, oom, others>>

NextInvalid == Next \/ AddStringInvalid

\* addString may be called with a string checkString refuses
SpecInvalid == Init /\ [][NextInvalid]_vars

\* C12: addString called with a null, an empty or a longer than 64 characters
\* string signals a validation error and leaves the table unchanged, so
\* every occupied slot holds a string of 1 to 64 characters.
C12_InvalidRejected ==
    [][\A str \in InvalidStrings :
           IsAddString(str) =>
               /\ ht' = ht
               /\ status' = "live"
               /\ Len(errors') > Len(errors)
               /\ \A i \in Occupied(ht') :
                      /\ strlen(ht'.dict[i].str) >= MIN_STRING_SIZE
                      /\ strlen(ht'.dict[i].str) <= MAX_STRING_SIZE]_vars

\* ------------------------------------------------------------ C13 and C14
MallocFailedMsg == "Error: Could not allocate memory for hash table."
CallocFailedMsg == "Error: Could not allocate memory for dictionary."

\* the smallest capacity createHashTable is called with
MinCreateSize == -1

\* the capacities createHashTable is called with: below 1 too
CreateSizes == (MinCreateSize..0) \cup InitSizes

\* checkSize: -1 for a size below 1, else the size.  No function calls it.
checkSize(size) == IF size < 1 THEN -1 ELSE size

\* what calloc(size, sizeof(Word)) can return: for a negative size, which
\* is converted to a size_t that cannot be allocated, NULL; for 0, NULL or
\* a pointer to no slots; else a pointer, or NULL when memory is short
CallocResults(size) == IF size < 0 THEN {"NULL"} ELSE {"NULL", "block"}

\* before the call of createHashTable(size)
InitCreate ==
    /\ ht = NoTable
    /\ heap = EmptyHeap
    /\ status = "none"
    /\ inserted = EmptyBag
    /\ initSize \in CreateSizes
    /\ errors = << >>
    /\ freeCalls = << >>
    /\ oom = 0
    /\ OthersIdle

\* ht = createHashTable(initSize): malloc fails, or calloc fails after the
\* header has been allocated, or both succeed.  The size is not tested.
\* status "null" is the caller holding the NULL the call returned.
CreateHashTable ==
    /\ status = "none"
    /\ \/ /\ errors' = Append(errors, MallocFailedMsg)
          /\ status' = "null"
          /\ oom' = oom + 1
          /\ UNCHANGED <<ht, heap>>
       \/ /\ "NULL" \in CallocResults(initSize)
          /\ heap' = MallocHt(heap)
          /\ errors' = Append(errors, CallocFailedMsg)
          /\ status' = "null"
          /\ oom' = oom + 1
          /\ UNCHANGED ht
       \/ /\ "block" \in CallocResults(initSize)
          /\ ht' = createHashTable(initSize)
          /\ heap' = CallocDict(MallocHt(heap), initSize)
          /\ status' = "live"
          /\ UNCHANGED <<errors, oom>>
    /\ UNCHANGED <<inserted, initSize, freeCalls, others>>

\* addString(ht, str) on a table of capacity 0: the load factor is 1 / 0.0,
\* above HASH_LOAD_FACTOR, growHashTable makes a store of 2 * 0 slots, and
\* hash divides by ht->size = 0
AddStringNoSlots ==
    /\ status = "live"
    /\ ht.size = 0
    /\ Calls < MaxCalls
    /\ \E str \in Words :
           inserted' = inserted (+) SetToBag({str})
    /\ LET g == growHashTable(ht, heap)
       IN  /\ ht' = g.ht
           /\ heap' = g.heap
    /\ status' \in UBOutcomes
    /\ UNCHANGED <<initSize, errors, freeCalls, oom, others>>

NextCreate ==
    \/ CreateHashTable
    \/ AddStringNoSlots
    \/ (ht.size >= 1 /\ AddString)
    \/ FreeHashTable

\* createHashTable is called with any capacity, and its allocations may fail
SpecCreate == InitCreate /\ [][NextCreate]_vars

\* C13: createHashTable called with a capacity below 1 signals a failure and
\* returns no table, so addString only runs on tables of capacity >= 1 and
\* hash never divides by 0.
C13_SmallCapacityRejected ==
    (status # "none" /\ checkSize(initSize) = -1) =>
        /\ status = "null"
        /\ Len(errors) > 0
        /\ ht = NoTable

\* C14: when an allocation of createHashTable fails, the caller gets no
\* table and nothing the call allocated is still held.
C14_CreateFailureUndone ==
    status = "null" =>
        /\ ht = NoTable
        /\ Len(errors) > 0
        /\ heap.htA = heap.htF
        /\ heap.dictA = heap.dictF

\* ------------------------------------------------------------------ C16
LookupFailedMsg == "Error: Could not allocate memory for look-up table."

\* the array main gives to createLookupTable: , * ; . : ( [ ] )
COMMON_PUNCTUATION == <<44, 42, 59, 46, 58, 40, 91, 93, 41>>

\* the characters the illegal arrays are made of: those of main, and !
IllegalPool == COMMON_PUNCTUATION \o <<33>>

\* the arrays createLookupTable is called with: every selection of
\* characters of the pool, in the pool's order (0 to 10 characters, no NUL
\* at the end)
IllegalArrays ==
    {SelectSeq(IllegalPool, LAMBDA c : c \in S) :
        S \in SUBSET {IllegalPool[k] : k \in 1..Len(IllegalPool)}}

\* sizeof(illegal), the size of a pointer: 4 or 8 bytes as the build has it
PointerSizes == {4, 8}

\* bytes a read past the end of the array can give: 0, a character that may
\* be in the array too, and a byte that is no index of the table
GarbageBytes == {0, 44, 200}

\* the for loop of createLookupTable from index i on (i counts from 0, the
\* sequence from 1): the characters it marks that are elements of the array.
\* It runs while i <= sizeof(illegal), whatever the array's length.
RECURSIVE LookupLoop(_, _, _, _)
LookupLoop(illegal, i, ptrSize, marks) ==
    IF ~(i <= ptrSize) THEN marks
    ELSE IF i + 1 <= Len(illegal)
    THEN LookupLoop(illegal, i + 1, ptrSize, marks \cup {illegal[i + 1]})
    ELSE LookupLoop(illegal, i + 1, ptrSize, marks)

\* the number of reads illegal[i] of that loop past the end of the array
OutsideReads(illegal, ptrSize) ==
    IF ptrSize + 1 > Len(illegal) THEN ptrSize + 1 - Len(illegal) ELSE 0

\* the values those reads can give, as a set
GarbageSets(illegal, ptrSize) ==
    {G \in SUBSET GarbageBytes :
        /\ Cardinality(G) <= OutsideReads(illegal, ptrSize)
        /\ OutsideReads(illegal, ptrSize) > 0 => G # {}}

\* the table createLookupTable returns when the reads outside the array give
\* the bytes of garbage: ASCII_SIZE entries, 1 at the marked codes
createLookupTable(illegal, ptrSize, garbage) ==
    LET marks == LookupLoop(illegal, 0, ptrSize, {}) \cup garbage
    IN  [c \in 0..(ASCII_SIZE - 1) |-> IF c \in marks THEN 1 ELSE 0]

\* before the call of createLookupTable(illegal)
InitLookup ==
    /\ TableIdle
    /\ driver = NoDriver
    /\ hashRun = NoHashRun
    /\ \E illegal \in IllegalArrays, ptrSize \in PointerSizes :
           lookup = [status |-> "none", illegal |-> illegal, ptrSize |-> ptrSize]

\* lookup = createLookupTable(illegal): calloc fails and the call returns
\* NULL; or the loop runs.  A read outside the array is undefined: it gives
\* some byte, and a byte of ASCII_SIZE or more then makes the loop write
\* outside the table.
CreateLookupTable ==
    /\ lookup.status = "none"
    /\ \/ /\ lookup' = [lookup EXCEPT !.status = "null"]
          /\ errors' = Append(errors, LookupFailedMsg)
       \/ /\ \E garbage \in GarbageSets(lookup.illegal, lookup.ptrSize) :
              LET outside == \E g \in garbage : g >= ASCII_SIZE
              IN  \E st \in (IF outside THEN UBOutcomes ELSE {"live"}) :
                      lookup' = [status |-> st,
                                 illegal |-> lookup.illegal,
                                 ptrSize |-> lookup.ptrSize,
                                 table |-> createLookupTable(lookup.illegal,
                                               lookup.ptrSize, garbage),
                                 outsideReads |-> OutsideReads(lookup.illegal,
                                                     lookup.ptrSize),
                                 outsideWrite |-> outside]
          /\ UNCHANGED errors
    /\ UNCHANGED <<ht, heap, status, inserted, initSize, freeCalls, oom,
                   driver, hashRun>>

NextLookup == CreateLookupTable

SpecLookup == InitLookup /\ [][NextLookup]_vars

\* C16: for every array of illegal characters, whatever its length, the
\* table returned has 1 at exactly the codes of the array's characters and 0
\* at every other code, and no element outside the array is read.
C16_ExactMarks ==
    lookup.status \notin {"none", "null"} =>
        /\ lookup.status = "live"
        /\ lookup.outsideReads = 0
        /\ \A c \in 0..(ASCII_SIZE - 1) :
               lookup.table[c] =
                   IF \E k \in 1..Len(lookup.illegal) : lookup.illegal[k] = c
                   THEN 1 ELSE 0

\* the array of main, where pointers have 8 bytes: the table is the right one
LookupOfMain ==
    (/\ lookup.status \notin {"none", "null"}
     /\ lookup.illegal = COMMON_PUNCTUATION
     /\ lookup.ptrSize = 8)
        => C16_ExactMarks

\* ------------------------------------------------------------------ C19
\* a string of letters as a C string
CString(letters) == Append(letters, 0)

\* the strings main adds, in order
DriverStrings ==
    <<CString(<<104, 101, 108, 108, 111>>), CString(<<119, 111, 114, 108, 100>>),
      CString(<<104, 101, 108, 108, 111>>), CString(<<119, 111, 114, 108, 100>>)>>
    \o [k \in 1..10 |-> CString([j \in 1..5 |-> 96 + k])]

\* main goes to statement pc, its last statement having used object access
Goto(pc, access) == driver' = [pc |-> pc, i |-> 0, access |-> access]

\* main is about to call createHashTable
InitDriver ==
    /\ TableIdle
    /\ driver = [pc |-> "create", i |-> 0, access |-> "none"]
    /\ lookup = NoLookup
    /\ hashRun = NoHashRun

\* HashTable *ht = createHashTable(HASH_SIZE);
DriverCreate ==
    /\ driver.pc = "create"
    /\ ht' = createHashTable(HASH_SIZE)
    /\ heap' = CallocDict(MallocHt(heap), HASH_SIZE)
    /\ status' = "live"
    /\ initSize' = HASH_SIZE
    /\ Goto("print_count", "none")
    /\ UNCHANGED <<inserted, errors, freeCalls, oom, lookup, hashRun>>

\* the statement after each printf of ht->count or ht->size of the live table
AfterPrint ==
    [print_count |-> "print_size", print_size |-> "add",
     print_count2 |-> "print_size2", print_size2 |-> "free"]

\* printf(..., ht->count); and printf(..., ht->size);
DriverPrintField ==
    /\ driver.pc \in DOMAIN AfterPrint
    /\ Goto(AfterPrint[driver.pc], "ht")
    /\ UNCHANGED <<table, lookup, hashRun>>

\* addString(ht, ...): the next of the calls of main
DriverAddString ==
    /\ driver.pc = "add"
    /\ LET str == DriverStrings[driver.i + 1]
           r == addString(ht, heap, str)
       IN  /\ ht' = r.ht
           /\ heap' = r.heap
           /\ errors' = errors \o r.err
           /\ inserted' = inserted (+) SetToBag({str})
    /\ IF driver.i + 1 < Len(DriverStrings)
       THEN driver' = [driver EXCEPT !.i = @ + 1, !.access = "ht"]
       ELSE Goto("print_table", "ht")
    /\ UNCHANGED <<status, initSize, freeCalls, oom, lookup, hashRun>>

\* one pass of the loop that prints the table: slot i is read
DriverPrintSlot ==
    /\ driver.pc = "print_table"
    /\ IF driver.i + 1 < ht.size
       THEN driver' = [driver EXCEPT !.i = @ + 1, !.access = "ht"]
       ELSE Goto("print_count2", "ht")
    /\ UNCHANGED <<table, lookup, hashRun>>

\* freeHashTable(ht);
DriverFree ==
    /\ driver.pc = "free"
    /\ heap' = freeHashTable(ht, heap)
    /\ status' = "freed"
    /\ freeCalls' = Append(freeCalls, [arg |-> "ht", returned |-> TRUE, ret |-> 0])
    /\ Goto("read_freed_table", "none")
    /\ UNCHANGED <<ht, inserted, initSize, errors, oom, lookup, hashRun>>

\* printf("Hash table status: %d\n", ht->size); after the table has been
\* released: the read is undefined, main is killed or goes on
DriverReadFreedTable ==
    /\ driver.pc = "read_freed_table"
    /\ \E pc \in {"crashed", "create_lookup"} : Goto(pc, "ht")
    /\ UNCHANGED <<table, lookup, hashRun>>

\* int *lookup = createLookupTable(COMMON_PUNCTUATION);
DriverCreateLookup ==
    /\ driver.pc = "create_lookup"
    /\ \E ptrSize \in PointerSizes :
       \E garbage \in GarbageSets(COMMON_PUNCTUATION, ptrSize) :
           lookup' = [status |-> "live",
                      illegal |-> COMMON_PUNCTUATION,
                      ptrSize |-> ptrSize,
                      table |-> createLookupTable(COMMON_PUNCTUATION, ptrSize,
                                                  garbage),
                      outsideReads |-> OutsideReads(COMMON_PUNCTUATION, ptrSize),
                      outsideWrite |-> FALSE]
    /\ Goto("read_lookup", "none")
    /\ UNCHANGED <<table, hashRun>>

\* printf("Lookup table status: %d\n", lookup[',']);
DriverReadLookup ==
    /\ driver.pc = "read_lookup"
    /\ Goto("print_lookup", "lookup")
    /\ UNCHANGED <<table, lookup, hashRun>>

\* one pass of the loop that prints the illegal characters: lookup[i] is read
DriverPrintIllegal ==
    /\ driver.pc = "print_lookup"
    /\ IF driver.i + 1 < ASCII_SIZE
       THEN driver' = [driver EXCEPT !.i = @ + 1, !.access = "lookup"]
       ELSE Goto("free_lookup", "lookup")
    /\ UNCHANGED <<table, lookup, hashRun>>

\* freeLookupTable(lookup);
DriverFreeLookup ==
    /\ driver.pc = "free_lookup"
    /\ lookup' = [lookup EXCEPT !.status = "freed"]
    /\ Goto("read_freed_lookup", "none")
    /\ UNCHANGED <<table, hashRun>>

\* printf("Lookup table status: %d\n", lookup[',']); after the table has
\* been released: the read is undefined, main is killed or goes on
DriverReadFreedLookup ==
    /\ driver.pc = "read_freed_lookup"
    /\ \E pc \in {"crashed", "return"} : Goto(pc, "lookup")
    /\ UNCHANGED <<table, lookup, hashRun>>

\* return 0;
DriverReturn ==
    /\ driver.pc = "return"
    /\ Goto("done", "none")
    /\ UNCHANGED <<table, lookup, hashRun>>

NextDriver ==
    \/ DriverCreate
    \/ DriverPrintField
    \/ DriverAddString
    \/ DriverPrintSlot
    \/ DriverFree
    \/ DriverReadFreedTable
    \/ DriverCreateLookup
    \/ DriverReadLookup
    \/ DriverPrintIllegal
    \/ DriverFreeLookup
    \/ DriverReadFreedLookup
    \/ DriverReturn

\* main, statement by statement, with every allocation succeeding
SpecDriver == InitDriver /\ [][NextDriver]_vars

\* C19: in main no field of the hash table is read or written after
\* freeHashTable has released it, and no entry of the look-up table is read
\* after freeLookupTable has released it.
C19_NoUseAfterFree ==
    /\ ~(driver.access = "ht" /\ status = "freed")
    /\ ~(driver.access = "lookup" /\ lookup.status = "freed")

\* what main prints before it frees the table: 12 strings in 22 slots,
\* hello and world counted twice
DriverTable ==
    driver.pc = "free" =>
        /\ ht.count = 12
        /\ ht.size = 22
        /\ \A i \in Occupied(ht) :
               ht.dict[i].count = CopiesIn(ht.dict[i].str, inserted)
        /\ CopiesIn(DriverStrings[1], inserted) = 2
        /\ CopiesIn(DriverStrings[2], inserted) = 2


\* the first letters of the strings in slot order, from slot i on
RECURSIVE PrintedFrom(_, _)
PrintedFrom(t, i) ==
    IF i >= t.size THEN << >>
    ELSE IF t.dict[i].str # NULL
    THEN <<t.dict[i].str[1]>> \o PrintedFrom(t, i + 1)
    ELSE PrintedFrom(t, i + 1)

\* the order in which the compiled program prints the table: bbbbb ddddd
\* fffff hhhhh jjjjj aaaaa ccccc eeeee ggggg iiiii hello world
DriverPrintOrder ==
    driver.pc = "free" =>
        PrintedFrom(ht, 0) = <<98, 100, 102, 104, 106, 97, 99, 101, 103, 105, 104, 119>>

====
